---- MODULE Spec2Model ----
(***************************************************************************)
(* A model of src/streamlit_app.py: the branch reconciliation of           *)
(* collect_branch_data, the Gantt task builder _build_gantt and the        *)
(* project state store (_rd_state, _wr_state, _load_pm, _save_pm,          *)
(* _del_pm).  Each part has its own specification over its own variables;  *)
(* the variables of the other parts keep their initial values.             *)
(***************************************************************************)
EXTENDS Integers, Sequences, FiniteSets, TLC

VARIABLES
    \* ---- collect_branch_data (one load of one branch) ----
    pc,              \* position in collect_branch_data
    branch,          \* the requested branch (parameter)
    default_branch,  \* repo_info.get("default_branch", "main")
    branch_names,    \* names of the fetched branches
    all_commits,     \* _fetch_commits(owner, repo, branch)
    compare,         \* what _fetch_compare returned or raised
    default_shas,    \* _fetch_default_shas(...), once fetched
    raw_commits,     \* the reconciled commit list
    commits,         \* the processed commit list
    author_stats,    \* the per-author rollup built with it
    calls,           \* the fetches issued so far, in order
    error,           \* the error collect_branch_data raised, if any
    \* ---- _build_gantt ----
    gpc,             \* "edit" while the table is edited, "done" after a build
    df,              \* the rows of the edited activity table
    gantt_in,        \* the arguments of the last _build_gantt call
    tasks,           \* the tasks it returned
    \* ---- project state store ----
    file,            \* the content of STATE_FILE
    sess,            \* per session: the store operation in progress
    last_write,      \* the last _wr_state call made on the file
    last_load,       \* the last _load_pm call made since that write
    store_ops,       \* how many _save_pm and _del_pm calls have begun
    \* ---- page_project_timeline: the activity table and "Save Changes" ----
    tpc,             \* "closed", "open" (the table is shown) or "saved"
    stored,          \* commit_inputs of the record the state file holds under rk
    Dcommits,        \* sha_full of D["commits"], the freshly fetched commits
    saved,           \* commit_inputs of saved = _load_pm(rk)
    edited,          \* the rows of the data editor
    save_outcome,    \* how the _wr_state call of "Save Changes" ended
    \* ---- page_author_intelligence: "Analyze Contributor" ----
    apc,             \* "select", "fetching", "done", "warned" or "aborted"
    D,               \* the dashboard data: commits and author_stats
    selected,        \* the contributor chosen in the select box
    ac,              \* the commits the enrichment pass goes through
    enriched,        \* the commits enriched so far
    totals,          \* ta, td, tf: additions, deletions and files so far
    detail_calls,    \* the _fetch_commit_detail calls made, with how each ended
    \* ---- _health_score ----
    hpc,             \* "input" before the call, "scored" after it
    data,            \* the argument: commits, issues, branch_pulls, author_stats
    score,           \* the value returned
    \* ---- _classify_file ----
    fpc,             \* "input" before the call, "classified" after it
    path,            \* the argument, as the sequence of its characters
    classification,  \* the value returned
    \* ---- _gh_paginated and the _gh_get calls it makes ----
    rpc,             \* "paging", "returned" or "raised"
    max_pages,       \* the caller's page cap
    pg,              \* the page the loop is at
    out,             \* the items gathered so far
    received,        \* the responses received, one per page requested
    last_get,        \* what the last _gh_get call returned or raised
    http_requests,   \* the requests.get calls made so far
    \* ---- main: Load and Refresh ----
    remote,          \* the repository as the provider holds it now
    fetch_cache,     \* st.cache_data: the memoized fetchers' entries
    branch_data,     \* st.session_state.branch_data
    last_error,      \* st.session_state.last_error
    last_run         \* what the last run of main did

cvars == <<pc, branch, default_branch, branch_names, all_commits, compare,
           default_shas, raw_commits, commits, author_stats, calls, error>>
gvars == <<gpc, df, gantt_in, tasks>>
svars == <<file, sess, last_write, last_load, store_ops>>
tvars == <<tpc, stored, Dcommits, saved, edited, save_outcome>>
avars == <<apc, D, selected, ac, enriched, totals, detail_calls>>
hvars == <<hpc, data, score>>
fvars == <<fpc, path, classification>>
rvars == <<rpc, max_pages, pg, out, received, last_get, http_requests>>
mvars == <<remote, fetch_cache, branch_data, last_error, last_run>>
vars == <<cvars, gvars, svars, tvars, avars, hvars, fvars, rvars, mvars>>

\* the variables each part leaves alone
xcvars == <<gvars, svars, tvars, avars, hvars, fvars, rvars, mvars>>
xgvars == <<cvars, svars, tvars, avars, hvars, fvars, rvars, mvars>>
xsvars == <<cvars, gvars, tvars, avars, hvars, fvars, rvars, mvars>>
xtvars == <<cvars, gvars, svars, avars, hvars, fvars, rvars, mvars>>
xavars == <<cvars, gvars, svars, tvars, hvars, fvars, rvars, mvars>>
xhvars == <<cvars, gvars, svars, tvars, avars, fvars, rvars, mvars>>
xfvars == <<cvars, gvars, svars, tvars, avars, hvars, rvars, mvars>>
xrvars == <<cvars, gvars, svars, tvars, avars, hvars, fvars, mvars>>
xmvars == <<cvars, gvars, svars, tvars, avars, hvars, fvars, rvars>>

\* ------------------------------------------------------------------------
\* Generic helpers
\* ------------------------------------------------------------------------

Range(s) == {s[i] : i \in DOMAIN s}

RECURSIVE SelectSeqBy(_, _)
\* [c for c in s if Keep[c]] : the list comprehension, order preserved
SelectSeqBy(s, keep) ==
    IF s = <<>> THEN <<>>
    ELSE IF Head(s) \in keep THEN <<Head(s)>> \o SelectSeqBy(Tail(s), keep)
         ELSE SelectSeqBy(Tail(s), keep)

Take(s, n) == SubSeq(s, 1, IF Len(s) < n THEN Len(s) ELSE n)

SeqsUpTo(S, n) == UNION {[1 .. k -> S] : k \in 0 .. n}

Injective(s) == \A i, j \in DOMAIN s : i # j => s[i] # s[j]

\* ------------------------------------------------------------------------
\* collect_branch_data
\* ------------------------------------------------------------------------

MaxCommits == 4       \* length of a fetched commit list
MaxBranches == 2      \* length of the fetched branch list
MaxAhead == 2         \* largest ahead_by the compare call reports
AvailableShown == 15  \* branch_names[:15] in the error message

Shas == {"A", "B", "C", "D"}
NoSha == ""            \* c.get("sha") of a commit object without a hash
BranchUniverse == {"main", "feature"}
Requested == BranchUniverse \cup {"ghost"}
NoName == ""           \* b.get("name") of a branch object without a name

\* The author and date each commit of the repository carries.
LoginOf(sha) == IF sha \in {"A", "B"} THEN "bob" ELSE "None"
NameOf(sha) == IF sha \in {"A", "B"} THEN "Bob B" ELSE "alice"
\* commit.author.date: an ISO timestamp, or no date at all
IsoDate(t) == [kind |-> "iso", t |-> t]
AbsentDate == [kind |-> "absent"]
DateOf(sha) ==
    CASE sha = "A" -> IsoDate(1) [] sha = "B" -> IsoDate(2)
      [] sha = "C" -> IsoDate(3) [] OTHER -> AbsentDate

\* _parse_date(val): None for a missing value or a string fromisoformat
\* rejects, else the datetime
NoDate == -1
ParseDate(val) == IF val.kind = "iso" THEN val.t ELSE NoDate

\* A commit object of the provider's commit listing.
RawCommit(sha) ==
    [sha |-> sha, login |-> LoginOf(sha), name |-> NameOf(sha), date |-> DateOf(sha)]

\* What _fetch_commits can return for the target branch.
CommitLists ==
    {[i \in DOMAIN s |-> RawCommit(s[i])] :
        s \in {t \in SeqsUpTo(Shas, MaxCommits) : Injective(t)}}

BranchLists == {t \in SeqsUpTo(BranchUniverse \cup {NoName}, MaxBranches) : Injective(t)}

\* branch_names = [b.get("name") for b in branches_raw if b.get("name")]
BranchNames(branches_raw) == SelectSeqBy(branches_raw, BranchUniverse)

BranchMissingUnguarded(names, b) == b \notin Range(names)

\* if branch_names and branch not in branch_names
BranchMissing(names, b) == names # <<>> /\ b \notin Range(names)

\* {c.get("sha") for c in ... if c.get("sha")}
ShaSet(cs) == {c.sha : c \in {d \in cs : d.sha # NoSha}}

\* if compare_shas and len(compare_shas) >= ahead_by
CompareComplete(compare_shas, ahead_by) ==
    compare_shas # {} /\ Cardinality(compare_shas) >= ahead_by

\* [c for c in all_commits if c.get("sha") in compare_shas]
CommitsIn(cs, shas) == SelectSeqBy(cs, {c \in Range(cs) : c.sha \in shas})

CommitsNotInKeepsFirst(cs, shas) ==
    IF cs = <<>> THEN <<>>
    ELSE <<Head(cs)>> \o SelectSeqBy(Tail(cs), {c \in Range(cs) : c.sha \notin shas})

\* [c for c in all_commits if c.get("sha") not in default_shas]
CommitsNotIn(cs, shas) == SelectSeqBy(cs, {c \in Range(cs) : c.sha \notin shas})

\* the loop over raw_commits: one processed entry per raw commit
ProcessCommit(c) ==
    [sha_full |-> c.sha,
     author_id |-> IF c.login # "None" THEN c.login ELSE c.name,
     author_name |-> c.name,
     date |-> ParseDate(c.date)]

ProcessCommits(raw) == [i \in DOMAIN raw |-> ProcessCommit(raw[i])]

\* defaultdict(...) with no author in it
EmptyStats == [a \in {} |-> 0]

\* author_stats[aid] of an author not seen so far
NewAuthor == [commits |-> 0, first |-> NoDate, last |-> NoDate, login |-> "None"]

CountIfDated(st, date) == IF date # NoDate THEN st.commits + 1 ELSE st.commits

\* s["commits"] += 1
CountCommit(st, date) == st.commits + 1

\* the update of s = author_stats[aid] for one commit
RollupCommit(st, c) ==
    LET date == ParseDate(c.date)
    IN [commits |-> CountCommit(st, date),
        login |-> IF c.login # "None" THEN c.login ELSE st.login,
        name |-> c.name,
        first |-> IF date # NoDate /\ (st.first = NoDate \/ date < st.first)
                  THEN date ELSE st.first,
        last |-> IF date # NoDate /\ (st.last = NoDate \/ date > st.last)
                 THEN date ELSE st.last]

\* author_stats after the loop over raw_commits
RECURSIVE Rollup(_)
Rollup(raw) ==
    IF raw = <<>> THEN EmptyStats
    ELSE LET before == Rollup(SubSeq(raw, 1, Len(raw) - 1))
             c == raw[Len(raw)]
             aid == ProcessCommit(c).author_id
             st == IF aid \in DOMAIN before THEN before[aid] ELSE NewAuthor
         IN [a \in DOMAIN before \cup {aid} |->
                IF a = aid THEN RollupCommit(st, c) ELSE before[a]]

AlwaysReconciles(b, d) == TRUE

\* if branch != default_branch
NeedsReconciling(b, d) == b # d

CompareErrorEscapes == FALSE

\* try: ... except Exception: an error of the compare call is caught
CatchesCompareError == TRUE

\* repo_info's "default_branch" field, "None" when the field is absent
DefaultBranchField == {"main", "None"}

\* What _fetch_default_shas reads from the default branch's commit listing.
DefaultCommitSets == SUBSET {RawCommit(s) : s \in Shas \cup {NoSha}}

NoError == [kind |-> "none"]
ApiError(call) == [kind |-> "api", call |-> call]
RepoNotFound == [kind |-> "repo_not_found"]
BranchNotFound(names) ==
    [kind |-> "branch_not_found", available |-> Take(names, AvailableShown)]

NotFetched == [status |-> "not_called"]
CompareRaised == [status |-> "raised"]
CompareOk(shas, ahead) == [status |-> "ok", shas |-> shas, ahead_by |-> ahead]

\* What _fetch_compare can return: a body with commits and ahead_by.  A
\* 202/204/404 answer becomes {}, which reads as no commits and ahead_by 0.
CompareBodies ==
    {[commits |-> cs, ahead_by |-> a] :
        cs \in SUBSET {RawCommit(s) : s \in Shas \cup {NoSha}}, a \in 0 .. MaxAhead}

InitCollect ==
    /\ pc = "repo"
    /\ branch \in Requested
    /\ default_branch = "None"
    /\ branch_names = <<>>
    /\ all_commits = <<>>
    /\ compare = NotFetched
    /\ default_shas = {}
    /\ raw_commits = <<>>
    /\ commits = <<>>
    /\ author_stats = EmptyStats
    /\ calls = <<>>
    /\ error = NoError

Fail(e) ==
    /\ pc' = "failed"
    /\ error' = e

Proceed(next) ==
    /\ pc' = next
    /\ error' = error

Issue(fetches) == calls' = calls \o fetches

\* Once raw_commits is known: the rollup loop over raw_commits, then the
\* remaining fetches (issues, pulls, languages, tree, contributors, activity,
\* milestones), any of which may raise, and the return of the dashboard data.
Reconciled(raw, fetched) ==
    /\ raw_commits' = raw
    /\ commits' = ProcessCommits(raw)
    /\ author_stats' = Rollup(raw)
    /\ Issue(<<fetched, "rest">>)
    /\ \/ Proceed("done")
       \/ Fail(ApiError("rest"))

\* repo_info = _fetch_repo(owner, repo) and the check that follows
FetchRepo ==
    /\ pc = "repo"
    /\ Issue(<<"repo">>)
    /\ \/ Fail(ApiError("repo")) /\ UNCHANGED default_branch
       \/ Fail(RepoNotFound) /\ UNCHANGED default_branch
       \/ \E d \in DefaultBranchField :
            /\ default_branch' = IF d = "None" THEN "main" ELSE d
            /\ Proceed("branches")
    /\ UNCHANGED <<branch, branch_names, all_commits, compare, default_shas,
                   raw_commits, commits, author_stats>>
    /\ UNCHANGED xcvars

\* branches_raw = _fetch_branches(owner, repo) and the validation of branch
FetchBranches ==
    /\ pc = "branches"
    /\ Issue(<<"branches">>)
    /\ \/ Fail(ApiError("branches")) /\ UNCHANGED branch_names
       \/ \E branches_raw \in BranchLists :
            /\ branch_names' = BranchNames(branches_raw)
            /\ IF BranchMissing(BranchNames(branches_raw), branch)
               THEN Fail(BranchNotFound(BranchNames(branches_raw)))
               ELSE Proceed("commits")
    /\ UNCHANGED <<branch, default_branch, all_commits, compare, default_shas,
                   raw_commits, commits, author_stats>>
    /\ UNCHANGED xcvars

\* all_commits = _fetch_commits(owner, repo, branch); the else branch of
\* "if branch != default_branch" takes all of them
FetchCommits ==
    /\ pc = "commits"
    /\ \/ /\ Fail(ApiError("commits"))
          /\ Issue(<<"commits">>)
          /\ UNCHANGED <<all_commits, raw_commits, commits, author_stats>>
       \/ \E cs \in CommitLists :
            /\ all_commits' = cs
            /\ IF NeedsReconciling(branch, default_branch)
               THEN /\ Proceed("compare")
                    /\ Issue(<<"commits">>)
                    /\ UNCHANGED <<raw_commits, commits, author_stats>>
               ELSE Reconciled(cs, "commits")
    /\ UNCHANGED <<branch, default_branch, branch_names, compare, default_shas>>
    /\ UNCHANGED xcvars

\* compare = _fetch_compare(...) inside the try block
FetchCompare ==
    /\ pc = "compare"
    /\ \/ /\ compare' = CompareRaised
          /\ IF CatchesCompareError
             THEN Proceed("except")
             ELSE Fail(ApiError("compare"))
          /\ Issue(<<"compare">>)
          /\ UNCHANGED <<raw_commits, commits, author_stats>>
       \/ \E body \in CompareBodies :
            LET shas == ShaSet(body.commits)
                ahead == body.ahead_by
            IN /\ compare' = CompareOk(shas, ahead)
               /\ IF CompareComplete(shas, ahead)
                  THEN Reconciled(CommitsIn(all_commits, shas), "compare")
                  ELSE /\ Proceed("truncated")
                       /\ Issue(<<"compare">>)
                       /\ UNCHANGED <<raw_commits, commits, author_stats>>
    /\ UNCHANGED <<branch, default_branch, branch_names, all_commits, default_shas>>
    /\ UNCHANGED xcvars

\* default_shas = _fetch_default_shas(...) in the try block (compare was
\* incomplete); an error here is caught by the same except clause
FetchDefaultShasTruncated ==
    /\ pc = "truncated"
    /\ \/ /\ Proceed("except")
          /\ Issue(<<"default_shas">>)
          /\ UNCHANGED <<default_shas, raw_commits, commits, author_stats>>
       \/ \E cs \in DefaultCommitSets :
            /\ default_shas' = ShaSet(cs)
            /\ Reconciled(CommitsNotIn(all_commits, ShaSet(cs)), "default_shas")
    /\ UNCHANGED <<branch, default_branch, branch_names, all_commits, compare>>
    /\ UNCHANGED xcvars

\* default_shas = _fetch_default_shas(...) in the except clause; nothing
\* catches an error raised here
FetchDefaultShasExcept ==
    /\ pc = "except"
    /\ \/ /\ Fail(ApiError("default_shas"))
          /\ Issue(<<"default_shas">>)
          /\ UNCHANGED <<default_shas, raw_commits, commits, author_stats>>
       \/ \E cs \in DefaultCommitSets :
            /\ default_shas' = ShaSet(cs)
            /\ Reconciled(CommitsNotIn(all_commits, ShaSet(cs)), "default_shas")
    /\ UNCHANGED <<branch, default_branch, branch_names, all_commits, compare>>
    /\ UNCHANGED xcvars

NextCollect ==
    \/ FetchRepo
    \/ FetchBranches
    \/ FetchCommits
    \/ FetchCompare
    \/ FetchDefaultShasTruncated
    \/ FetchDefaultShasExcept

\* ------------------------------------------------------------------------
\* Project state store: _rd_state, _wr_state, _load_pm, _save_pm, _del_pm
\* ------------------------------------------------------------------------

MaxStoreOps == 3   \* _save_pm and _del_pm calls in one run

Sessions == {1, 2}
Keys == {"o/r@main", "o/r@feature"}

\* Python values of a record's date fields: an ISO string, or a date object
PyStr(text) == [py |-> "str", v |-> text]
PyDate(text) == [py |-> "date", v |-> text]

\* the dict {} : _load_pm's default, and the document of an empty store
EmptyDict == [k \in {} |-> 0]

\* the record "Save Changes" builds: ISO strings throughout
RecA ==
    [project_start |-> PyStr("2024-01-01"), project_end |-> PyStr("2024-01-31"),
     extensions |-> <<PyStr("2024-02-10")>>,
     commit_inputs |-> [sha \in {"C"} |-> [tag |-> "Feature", desc |-> "login"]]]

RecB ==
    [project_start |-> PyStr("2024-03-01"), project_end |-> PyStr("2024-03-31"),
     extensions |-> <<>>,
     commit_inputs |-> [sha \in {"C", "D"} |-> [tag |-> "", desc |-> ""]]]

\* a record that holds date objects where RecA holds their ISO strings
RecDates ==
    [project_start |-> PyDate("2024-01-01"), project_end |-> PyDate("2024-01-31"),
     extensions |-> <<PyDate("2024-02-10")>>,
     commit_inputs |-> [sha \in {"C"} |-> [tag |-> "Feature", desc |-> "login"]]]

SavedRecords == {RecA, RecB, RecDates}

\* json.dump(..., default=str) then json.load: a date object comes back as
\* the string str() gives for it
JsonValue(x) == PyStr(x.v)

JsonRecord(r) ==
    [f \in DOMAIN r |->
        IF f \in {"project_start", "project_end"} THEN JsonValue(r[f])
        ELSE IF f = "extensions" THEN [i \in DOMAIN r[f] |-> JsonValue(r[f][i])]
        ELSE r[f]]

JsonDoc(d) == [k \in DOMAIN d |-> JsonRecord(d[k])]

Missing == [state |-> "missing"]
Unreadable == [state |-> "unreadable"]
Json(d) == [state |-> "json", doc |-> d]

\* a file holding well-formed JSON that is not an object, such as [1]:
\* json.load returns a non-empty list, which "or {}" lets through
JsonList == [py |-> "list"]
IsDict(v) == v # JsonList

\* _rd_state(): {} unless the file exists and parses
RdState(f) == IF f.state = "json" THEN f.doc ELSE EmptyDict

\* what _wr_state(d) can leave in the file: the dumped document; the file as
\* it was when open() raises; a truncated file when the dump raises midway
WriteOutcomes == {"written", "open_failed", "dump_failed"}

WritesNothing(f, d, outcome) == f

WrState(f, d, outcome) ==
    CASE outcome = "written" -> Json(JsonDoc(d))
      [] outcome = "open_failed" -> f
      [] OTHER -> Unreadable

\* an exception leaving _load_pm, _save_pm or _del_pm
Raised(exc) == [raised |-> exc]

\* _rd_state().get(key, {}): a list has no attribute get
LoadPm(f, key) ==
    IF ~IsDict(RdState(f)) THEN Raised("AttributeError")
    ELSE IF key \in DOMAIN RdState(f) THEN RdState(f)[key]
    ELSE EmptyDict

KeepsDoc(d, key, state) == d

OnlyKey(d, key, state) == [k \in {key} |-> state]

KeepExisting(d, key, state) ==
    [k \in DOMAIN d \cup {key} |-> IF k \in DOMAIN d THEN d[k] ELSE state]

\* s[key] = state
SetKey(d, key, state) ==
    [k \in DOMAIN d \cup {key} |-> IF k = key THEN state ELSE d[k]]

KeepsKey(d, key) == d

\* s.pop(key, None)
PopKey(d, key) == [k \in DOMAIN d \ {key} |-> d[k]]

Idle == [pc |-> "idle"]
NoWrite == [op |-> "none"]
NoLoad == [key |-> "none"]

InitStore ==
    /\ file \in {Missing, Unreadable, Json(JsonList)}
    /\ sess = [i \in Sessions |-> Idle]
    /\ last_write = NoWrite
    /\ last_load = NoLoad
    /\ store_ops = 0

\* _load_pm(key)
Load(i, key) ==
    /\ sess[i] = Idle
    /\ last_load' = [key |-> key, ret |-> LoadPm(file, key)]
    /\ UNCHANGED <<file, sess, last_write, store_ops>>
    /\ UNCHANGED xsvars

\* _save_pm(key, state): s = _rd_state()
SaveRead(i, key, state) ==
    /\ sess[i] = Idle
    /\ store_ops < MaxStoreOps
    /\ store_ops' = store_ops + 1
    /\ sess' = [sess EXCEPT ![i] =
                   [pc |-> "save", key |-> key, state |-> state, s |-> RdState(file)]]
    /\ UNCHANGED <<file, last_write, last_load>>
    /\ UNCHANGED xsvars

\* what is remembered of the write before the last one
Earlier(w) ==
    IF w = NoWrite THEN NoWrite
    ELSE [op |-> w.op, key |-> w.key, by |-> w.by, outcome |-> w.outcome]

\* the record of session i's write: what it wrote, over which document, and
\* whether the file still held what the session had read
WriteBy(i, outcome) ==
    [op |-> sess[i].pc, key |-> sess[i].key, outcome |-> outcome,
     state |-> IF sess[i].pc = "save" THEN sess[i].state ELSE EmptyDict,
     before |-> RdState(file),
     alone |-> sess[i].s = RdState(file),
     by |-> i,
     prev |-> Earlier(last_write)]

\* the _wr_state call of session i, which is to write document d
Write(i, d, outcome) ==
    /\ file' = WrState(file, d, outcome)
    /\ last_write' = WriteBy(i, outcome)
    /\ last_load' = NoLoad
    /\ sess' = [sess EXCEPT ![i] = Idle]
    /\ UNCHANGED store_ops

\* s[key] = state or s.pop(key, None) on a list raises TypeError, which
\* leaves _save_pm / _del_pm before _wr_state is reached
RaiseBeforeWrite(i) ==
    /\ last_write' = WriteBy(i, "raised")
    /\ last_load' = NoLoad
    /\ sess' = [sess EXCEPT ![i] = Idle]
    /\ UNCHANGED <<file, store_ops>>

\* _save_pm(key, state): s[key] = state; _wr_state(s)
SaveWrite(i) ==
    /\ sess[i].pc = "save"
    /\ IF IsDict(sess[i].s)
       THEN \E outcome \in WriteOutcomes :
              Write(i, SetKey(sess[i].s, sess[i].key, sess[i].state), outcome)
       ELSE RaiseBeforeWrite(i)
    /\ UNCHANGED xsvars

\* _del_pm(key): s = _rd_state()
DelRead(i, key) ==
    /\ sess[i] = Idle
    /\ store_ops < MaxStoreOps
    /\ store_ops' = store_ops + 1
    /\ sess' = [sess EXCEPT ![i] = [pc |-> "del", key |-> key, s |-> RdState(file)]]
    /\ UNCHANGED <<file, last_write, last_load>>
    /\ UNCHANGED xsvars

\* _del_pm(key): s.pop(key, None); _wr_state(s)
DelWrite(i) ==
    /\ sess[i].pc = "del"
    /\ IF IsDict(sess[i].s)
       THEN \E outcome \in WriteOutcomes :
              Write(i, PopKey(sess[i].s, sess[i].key), outcome)
       ELSE RaiseBeforeWrite(i)
    /\ UNCHANGED xsvars

NextStore ==
    \/ \E i \in Sessions, key \in Keys : Load(i, key)
    \/ \E i \in Sessions, key \in Keys, state \in SavedRecords : SaveRead(i, key, state)
    \/ \E i \in Sessions : SaveWrite(i)
    \/ \E i \in Sessions, key \in Keys : DelRead(i, key)
    \/ \E i \in Sessions : DelWrite(i)

\* ------------------------------------------------------------------------
\* Properties of collect_branch_data
\* ------------------------------------------------------------------------

ShasOf(cs) == [i \in DOMAIN cs |-> cs[i].sha]

PosIn(s, x) == CHOOSE i \in DOMAIN s : s[i] = x

\* raw_commits has been computed (the rollup loop and the remaining fetches
\* follow it in the same step), and the fetch before it was `fetched`
ReconciledAfter(fetched) ==
    /\ Len(calls) >= 2
    /\ calls[Len(calls)] = "rest"
    /\ calls[Len(calls) - 1] = fetched

UsedFallback == ReconciledAfter("default_shas")

\* sub is exactly the elements of full that satisfy keep, in full's order
\* (full holds no commit twice)
ExactlyThoseOf(sub, full, keep) ==
    /\ \A i \in DOMAIN sub : sub[i] \in Range(full) /\ sub[i] \in keep
    /\ \A j \in DOMAIN full : full[j] \in keep => full[j] \in Range(sub)
    /\ Injective(sub)
    /\ \A i, j \in DOMAIN sub : i < j => PosIn(full, sub[i]) < PosIn(full, sub[j])

\* C1: when the hash-exclusion fallback is used (the target branch differs
\* from the default branch), the reconciled list is exactly the fetched
\* target commits whose hash is not in the fetched default-branch hash set,
\* in fetched order; default [A,B] and target [A,B,C,D] give [C,D].
C1_FallbackExcludesDefaultHashes ==
    UsedFallback =>
        /\ branch # default_branch
        /\ \A i \in DOMAIN raw_commits : raw_commits[i].sha \notin default_shas
        /\ ExactlyThoseOf(raw_commits, all_commits,
                          {c \in Range(all_commits) : c.sha \notin default_shas})
        /\ (ShasOf(all_commits) = <<"A", "B", "C", "D">> /\ default_shas = {"A", "B"})
               => ShasOf(raw_commits) = <<"C", "D">>

C1_Witness ==
    /\ UsedFallback
    /\ pc = "done"
    /\ ShasOf(all_commits) = <<"A", "B", "C", "D">>
    /\ default_shas = {"A", "B"}
    /\ ShasOf(raw_commits) = <<"C", "D">>

\* C2: when the requested branch is the default branch, no compare call and
\* no default-hash fetch is ever issued, and the processed commit list has
\* one entry per fetched commit, in fetched order.
C2_DefaultBranchUnfiltered ==
    (default_branch # "None" /\ branch = default_branch) =>
        /\ "compare" \notin Range(calls)
        /\ "default_shas" \notin Range(calls)
        /\ "commits" \in Range(calls) /\ error # ApiError("commits") =>
               /\ ReconciledAfter("commits")
               /\ raw_commits = all_commits
               /\ Len(commits) = Len(all_commits)
               /\ \A i \in DOMAIN all_commits : commits[i].sha_full = all_commits[i].sha

C2_Witness ==
    /\ branch = default_branch
    /\ pc = "done"
    /\ Len(all_commits) = 3
    /\ ShasOf(all_commits) = [i \in 1 .. 3 |-> commits[i].sha_full]

\* C3: when the compare call raises, that error is not propagated: the
\* default-hash fetch of the fallback is the next call, a failed load can
\* only carry the error of that fetch or of a later one, and a load that
\* completes returns the hash-exclusion result.
C3_CompareErrorFallsBack ==
    compare = CompareRaised =>
        /\ pc \in {"except", "done", "failed"}
        /\ pc = "failed" => error \in {ApiError("default_shas"), ApiError("rest")}
        /\ pc = "except" => error = NoError /\ calls[Len(calls)] = "compare"
        /\ pc = "done" =>
               /\ UsedFallback
               /\ ExactlyThoseOf(raw_commits, all_commits,
                                 {c \in Range(all_commits) : c.sha \notin default_shas})

C3_Witness ==
    /\ compare = CompareRaised
    /\ pc = "done"
    /\ error = NoError
    /\ ShasOf(all_commits) = <<"D", "A", "C">>
    /\ ShasOf(raw_commits) = <<"D", "C">>

\* the branch list has been fetched and the requested branch validated
BranchesFetched == Len(calls) >= 2 /\ error # ApiError("branches")

\* C4: a non-empty branch-name list without the requested branch fails the
\* load with a branch-not-found error that lists the available branches,
\* before any commit fetch, compare call or default-hash fetch; with an empty
\* branch-name list the check is skipped and the load goes on to the commit
\* fetch.
C4_BranchValidatedFirst ==
    BranchesFetched =>
        /\ (branch_names # <<>> /\ branch \notin Range(branch_names)) =>
               /\ pc = "failed"
               /\ error.kind = "branch_not_found"
               /\ Len(branch_names) <= AvailableShown => error.available = branch_names
               /\ calls = <<"repo", "branches">>
        /\ (branch_names = <<>> \/ branch \in Range(branch_names)) =>
               /\ error.kind # "branch_not_found"
               /\ pc = "commits" \/ "commits" \in Range(calls)

C4_Witness ==
    /\ branch = "ghost"
    /\ branch_names = <<"feature", "main">>
    /\ pc = "failed"
    /\ error = [kind |-> "branch_not_found", available |-> <<"feature", "main">>]
    /\ calls = <<"repo", "branches">>


\* the compare call succeeded with at least as many hashes as ahead_by
CompareCoversAhead ==
    compare # NotFetched /\ compare # CompareRaised
        /\ Cardinality(compare.shas) >= compare.ahead_by

\* the comparison was taken as complete: no fallback, and the reconciled list
\* is the fetched target commits whose hash is in the compare set
TreatedAsComplete ==
    /\ pc \notin {"truncated", "except"}
    /\ "default_shas" \notin Range(calls)
    /\ ReconciledAfter("compare")
    /\ ExactlyThoseOf(raw_commits, all_commits,
                      {c \in Range(all_commits) : c.sha \in compare.shas})

\* C25: on a branch other than the default one, a successful compare call
\* whose hash set has at least ahead_by elements (0 of 0 included) is treated
\* as complete: the reconciled list is the fetched target commits with a hash
\* in the compare set, and the hash-exclusion fallback is not used.
C25_CompareCompleteWhenCovering ==
    CompareCoversAhead => TreatedAsComplete

\* the part of C25 the code keeps: the same for a hash set that is not empty
NonEmptyCompareIsComplete ==
    (CompareCoversAhead /\ compare.shas # {}) => TreatedAsComplete

\* the author identities of the reconciled commits, and each one's commits
AuthorIds == {commits[i].author_id : i \in DOMAIN commits}
CommitsOf(a) == {i \in DOMAIN commits : commits[i].author_id = a}
DatesOf(a) == {commits[i].date : i \in CommitsOf(a)} \ {NoDate}
Earliest(S) == IF S = {} THEN NoDate ELSE CHOOSE x \in S : \A y \in S : x <= y
Latest(S) == IF S = {} THEN NoDate ELSE CHOOSE x \in S : \A y \in S : x >= y

\* C14: each author's commit count is the number of reconciled commits of
\* that identity, dated or not; first and last are the minimum and maximum
\* over the author's dated commits only, and null when there is none.
C14_RollupCountsAndDates ==
    pc = "done" =>
        /\ DOMAIN author_stats = AuthorIds
        /\ \A a \in AuthorIds :
              /\ author_stats[a].commits = Cardinality(CommitsOf(a))
              /\ author_stats[a].first = Earliest(DatesOf(a))
              /\ author_stats[a].last = Latest(DatesOf(a))

C14_Witness ==
    /\ pc = "done"
    /\ DOMAIN author_stats = {"alice", "bob"}
    /\ author_stats["alice"].commits = 2
    /\ author_stats["alice"].first = 3
    /\ author_stats["alice"].last = 3
    /\ author_stats["bob"].commits = 2
    /\ author_stats["bob"].first = 1
    /\ author_stats["bob"].last = 2
    /\ ShasOf(raw_commits) = <<"D", "B", "C", "A">>

\* ------------------------------------------------------------------------
\* _build_gantt: dates are day numbers, timestamps are minutes since day 0
\* ------------------------------------------------------------------------

MaxRows == 2           \* rows of the edited activity table
MaxDay == 2            \* dates and commit days range over 0 .. MaxDay
MinutesPerDay == 1440  \* dt.timedelta(days=1) in minutes
EndOfDayMinute == 1439 \* dt.time(23, 59)
MinSpanMinutes == 240  \* dt.timedelta(hours=4)
DefaultGap == 2        \* gap=2

Days == 0 .. MaxDay
Gaps == {-1, 0, DefaultGap}
TimesOfDay == {10 * 60}

\* The "Date" cell of a row: empty, blanks only, the dash _fmt prints for a
\* commit without a date, or "YYYY-MM-DD HH:MM".
DateCells ==
    {[kind |-> "empty"], [kind |-> "dash"]}
    \cup {[kind |-> "ts", day |-> d, minute |-> m] : d \in Days, m \in TimesOfDay}
    \cup {[kind |-> "ts", day |-> MaxDay, minute |-> EndOfDayMinute]}

GanttRow(author, date) ==
    [Author |-> author,
     Tag |-> IF author = "bob" THEN "Feature" ELSE "",
     SHA |-> "abc1234", Description |-> "", Date |-> date]

\* The rows the activity table can hold: every named author at every
\* timestamp, and rows without an author or without a parsable date.
RowChoices ==
    {GanttRow(a, d) : a \in {"alice", "bob"}, d \in {c \in DateCells : c.kind = "ts"}}
    \cup {GanttRow("", [kind |-> "ts", day |-> 0, minute |-> 10 * 60]),
          GanttRow(" ", [kind |-> "ts", day |-> 0, minute |-> 10 * 60]),
          GanttRow("alice", [kind |-> "empty"]),
          GanttRow("bob", [kind |-> "dash"])}

\* the deadline extensions st.session_state.pm_ext[rk] can hold
ExtensionChoices == {<<>>, <<0>>, <<MaxDay>>, <<1, 0>>, <<0, MaxDay>>}

\* (s or "").strip()
Strip(str) == IF str = " " THEN "" ELSE str

\* dt.datetime.strptime(ds[:16], "%Y-%m-%d %H:%M") parses
Parses(date) == date.kind = "ts"

\* the timestamp strptime returns
ParseTs(date) == date.day * MinutesPerDay + date.minute

RowUsableWithoutAuthor(r) == Parses(r.Date)

\* not (not author or not ds), and strptime did not raise
RowUsable(r) == Strip(r.Author) # "" /\ Parses(r.Date)

\* rows.append({...}) for a row that is not skipped
GanttEntry(r) ==
    [Author |-> Strip(r.Author),
     Tag |-> IF Strip(r.Tag) = "" THEN "Uncategorized" ELSE Strip(r.Tag),
     SHA |-> Strip(r.SHA), Desc |-> Strip(r.Description),
     Start |-> IF Parses(r.Date) THEN ParseTs(r.Date) ELSE 0]

RECURSIVE GanttRows(_)
\* the loop over df.iterrows()
GanttRows(d) ==
    IF d = <<>> THEN <<>>
    ELSE IF RowUsable(Head(d)) THEN <<GanttEntry(Head(d))>> \o GanttRows(Tail(d))
         ELSE GanttRows(Tail(d))

\* the order of the author strings
AuthorRank(a) == CASE a = "" -> 0 [] a = "alice" -> 1 [] a = "bob" -> 2 [] OTHER -> 3

RowBefore(x, y) ==
    \/ AuthorRank(x.Author) < AuthorRank(y.Author)
    \/ x.Author = y.Author /\ x.Start < y.Start

RECURSIVE InsertRow(_, _)
InsertRow(sorted, x) ==
    IF sorted = <<>> THEN <<x>>
    ELSE IF RowBefore(x, Head(sorted)) THEN <<x>> \o sorted
         ELSE <<Head(sorted)>> \o InsertRow(Tail(sorted), x)

RECURSIVE SortRows(_)
\* pd.DataFrame(rows).sort_values(["Author", "Start"])
SortRows(rows) ==
    IF rows = <<>> THEN <<>>
    ELSE InsertRow(SortRows(SubSeq(rows, 1, Len(rows) - 1)), rows[Len(rows)])

RECURSIVE AuthorsInOrder(_)
\* the group keys of df0.groupby("Author", sort=False)
AuthorsInOrder(rows) ==
    IF rows = <<>> THEN <<>>
    ELSE LET rest == AuthorsInOrder(SubSeq(rows, 1, Len(rows) - 1))
             a == rows[Len(rows)].Author
         IN IF a \in Range(rest) THEN rest ELSE Append(rest, a)

Max2(a, b) == IF a >= b THEN a ELSE b
Min2(a, b) == IF a <= b THEN a ELSE b
MaxOf(seq) == CHOOSE x \in Range(seq) : \A y \in Range(seq) : y <= x

WindowEndNeverEarlier(end, extensions) ==
    (IF extensions # <<>> THEN Max2(MaxOf(extensions), end) ELSE end) * MinutesPerDay
        + EndOfDayMinute

\* ws = dt.datetime.combine(start, dt.time(0))
WindowStart(start) == start * MinutesPerDay

\* re_date = max(extensions) if extensions else end;
\* we = dt.datetime.combine(re_date, dt.time(23, 59))
WindowEnd(end, extensions) ==
    (IF extensions # <<>> THEN MaxOf(extensions) ELSE end) * MinutesPerDay
        + EndOfDayMinute

\* e = next row's Start, or s + gap days for the last row;
\* if e <= s: e = s + gap days
NextStartOrGap(g, i, gap) ==
    LET s == g[i].Start
        e == IF i < Len(g) THEN g[i + 1].Start ELSE s + gap * MinutesPerDay
    IN IF e <= s THEN s + gap * MinutesPerDay ELSE e

KeepsSpan(s, e) == e

\* if e <= s: e = s + dt.timedelta(hours=4)
ForceMinSpan(s, e) == IF e <= s THEN s + MinSpanMinutes ELSE e

\* one pass of the loop "for i in range(len(g))"
CommitTask(g, i, ws, we, gap) ==
    LET s == Max2(g[i].Start, ws)
        e == Min2(NextStartOrGap(g, i, gap), we)
    IN [Author |-> g[i].Author, Start |-> s, End |-> ForceMinSpan(s, e),
        Tag |-> g[i].Tag, SHA |-> g[i].SHA, Desc |-> g[i].Desc]

AuthorTasksAlwaysIdle(g, ws, we, gap) ==
    LET real == [i \in DOMAIN g |-> CommitTask(g, i, ws, we, gap)]
    IN Append(real, [Author |-> g[1].Author, Start |-> real[Len(real)].End, End |-> we,
                     Tag |-> "Idle", SHA |-> "", Desc |-> "No activity"])

\* the tasks of one author group, with the trailing Idle task
AuthorTasks(g, ws, we, gap) ==
    LET real == [i \in DOMAIN g |-> CommitTask(g, i, ws, we, gap)]
        last_e == real[Len(real)].End
    IN IF last_e < we
       THEN Append(real, [Author |-> g[1].Author, Start |-> last_e, End |-> we,
                          Tag |-> "Idle", SHA |-> "", Desc |-> "No activity"])
       ELSE real

RECURSIVE ConcatTasks(_, _, _, _, _)
ConcatTasks(authors, df0, ws, we, gap) ==
    IF authors = <<>> THEN <<>>
    ELSE AuthorTasks(SelectSeqBy(df0, {r \in Range(df0) : r.Author = Head(authors)}),
                     ws, we, gap)
         \o ConcatTasks(Tail(authors), df0, ws, we, gap)

\* _build_gantt(df, start, end, extensions, gap)
BuildGantt(d, start, end, extensions, gap) ==
    LET rows == GanttRows(d)
        df0 == SortRows(rows)
    IN IF rows = <<>> THEN <<>>
       ELSE ConcatTasks(AuthorsInOrder(df0), df0,
                        WindowStart(start), WindowEnd(end, extensions), gap)

InitGantt ==
    /\ gpc = "edit"
    /\ df = <<>>
    /\ gantt_in = <<>>
    /\ tasks = <<>>

\* st.data_editor: the table gains a row
AddRow ==
    /\ gpc = "edit"
    /\ Len(df) < MaxRows
    /\ \E r \in RowChoices : df' = Append(df, r)
    /\ UNCHANGED <<gpc, gantt_in, tasks>>
    /\ UNCHANGED xgvars

\* "Generate Gantt Chart": tasks = _build_gantt(edited, pstart, pend, ext)
Generate ==
    /\ gpc = "edit"
    /\ \E start \in Days, end \in Days, ext \in ExtensionChoices, gap \in Gaps :
         /\ gantt_in' = [start |-> start, end |-> end, extensions |-> ext, gap |-> gap,
                         we |-> WindowEnd(end, ext)]
         /\ tasks' = BuildGantt(df, start, end, ext, gap)
    /\ gpc' = "done"
    /\ UNCHANGED df
    /\ UNCHANGED xgvars

NextGantt ==
    \/ AddRow
    \/ Generate

\* ------------------------------------------------------------------------
\* Properties of _build_gantt
\* ------------------------------------------------------------------------

Built == gpc = "done"

BuiltWindowStart == gantt_in.start * MinutesPerDay

\* the end of day of the latest extension, else of the project end date
BuiltWindowEnd ==
    LET ext == gantt_in.extensions
        latest == IF ext = <<>> THEN gantt_in.end
                  ELSE CHOOSE x \in Range(ext) : \A y \in Range(ext) : y <= x
    IN latest * MinutesPerDay + EndOfDayMinute

\* a row that names an author and carries a parsable date
NamedAndDated(r) == r.Author \notin {"", " "} /\ r.Date.kind = "ts"

\* the call the page makes: the default gap, a start date not after the end
CalledAsThePageDoes ==
    /\ Built
    /\ gantt_in.gap = DefaultGap
    /\ gantt_in.start <= gantt_in.end

\* C5: two distinct tasks of one author never overlap: one ends at or
\* before the start of the other (stated for the calls the page makes).
C5_AuthorTasksDisjoint ==
    CalledAsThePageDoes =>
        \A i, j \in DOMAIN tasks :
            (i # j /\ tasks[i].Author = tasks[j].Author) =>
                \/ tasks[i].End <= tasks[j].Start
                \/ tasks[j].End <= tasks[i].Start

\* C6: no task ends after the effective window end (stated for the calls
\* the page makes).
C6_TasksEndWithinWindow ==
    CalledAsThePageDoes => \A i \in DOMAIN tasks : tasks[i].End <= BuiltWindowEnd

\* C7: every task, commit-derived or Idle, ends strictly after it starts.
C7_TasksHavePositiveSpan ==
    Built => \A i \in DOMAIN tasks : tasks[i].End > tasks[i].Start

C7_Witness ==
    /\ Built
    /\ \E i \in DOMAIN tasks :
         /\ tasks[i].Tag # "Idle"
         /\ tasks[i].Start = BuiltWindowStart
         /\ tasks[i].End = tasks[i].Start + MinSpanMinutes
    /\ \E i \in DOMAIN tasks : tasks[i].Tag = "Idle" /\ tasks[i].End > tasks[i].Start

\* C8: no rows give no tasks, and a row without an author or without a
\* parsable date contributes no task: every commit task stems from a row that
\* has both, one task per such row, Idle tasks belong to authors of such
\* rows, and a table holding only rows without author or date gives no task.
C8_UnusableRowsGiveNoTask ==
    Built =>
        LET good == {k \in DOMAIN df : NamedAndDated(df[k])}
            real == {i \in DOMAIN tasks : tasks[i].Tag # "Idle"}
            idle == {i \in DOMAIN tasks : tasks[i].Tag = "Idle"}
        IN /\ df = <<>> => tasks = <<>>
           /\ good = {} => tasks = <<>>
           /\ Cardinality(real) = Cardinality(good)
           /\ \A i \in DOMAIN tasks : \E k \in good : df[k].Author = tasks[i].Author
           /\ \A i, j \in idle : tasks[i].Author = tasks[j].Author => i = j

C8_Witness ==
    /\ Built
    /\ Len(df) = 2
    /\ df[1] = GanttRow("bob", [kind |-> "dash"])
    /\ df[2].Author = "alice" /\ df[2].Date.kind = "ts"
    /\ Len(tasks) = 2
    /\ \A i \in DOMAIN tasks : tasks[i].Author = "alice"

\* C27: the effective window end is the end of day of the latest extension
\* whenever there is an extension, even one before the project end date, and
\* the end of day of the project end date otherwise; a window ending on day 1
\* with one extension to day 2 ends on day 2.
C27_WindowEndIsLatestExtension ==
    Built =>
        /\ gantt_in.we = BuiltWindowEnd
        /\ gantt_in.extensions = <<>> =>
              gantt_in.we = gantt_in.end * MinutesPerDay + EndOfDayMinute
        /\ \A i \in DOMAIN gantt_in.extensions :
              gantt_in.we >= gantt_in.extensions[i] * MinutesPerDay + EndOfDayMinute
        /\ gantt_in.extensions # <<>> =>
              \E i \in DOMAIN gantt_in.extensions :
                  gantt_in.we = gantt_in.extensions[i] * MinutesPerDay + EndOfDayMinute
        /\ (gantt_in.end = 1 /\ gantt_in.extensions = <<MaxDay>>) =>
              gantt_in.we = MaxDay * MinutesPerDay + EndOfDayMinute

\* an extension earlier than the project end date pulls the window end back,
\* and an Idle task ends there
C27_Witness ==
    /\ Built
    /\ gantt_in.start = 0
    /\ gantt_in.end = MaxDay
    /\ gantt_in.extensions = <<1, 0>>
    /\ gantt_in.we = MinutesPerDay + EndOfDayMinute
    /\ \E i \in DOMAIN tasks : tasks[i].Tag = "Idle" /\ tasks[i].End = gantt_in.we

\* the authors of the tasks, and each one's commit-derived and Idle tasks
TaskAuthors == {tasks[i].Author : i \in DOMAIN tasks}
RealTasksOf(a) == {i \in DOMAIN tasks : tasks[i].Author = a /\ tasks[i].Tag # "Idle"}
IdleTasksOf(a) == {i \in DOMAIN tasks : tasks[i].Author = a /\ tasks[i].Tag = "Idle"}

\* C28: an author gets exactly one trailing Idle task if and only if the end
\* of the author's last commit-derived task is strictly before the effective
\* window end; the Idle task starts at that end and ends at the window end.
C28_IdleTaskIffBeforeWindowEnd ==
    Built =>
        \A a \in TaskAuthors :
            LET last == Latest(RealTasksOf(a))
            IN /\ RealTasksOf(a) # {}
               /\ IF tasks[last].End < gantt_in.we
                  THEN /\ IdleTasksOf(a) = {last + 1}
                       /\ tasks[last + 1].Start = tasks[last].End
                       /\ tasks[last + 1].End = gantt_in.we
                  ELSE IdleTasksOf(a) = {}

\* one author with a trailing Idle task, one whose last task reaches the
\* window end and who has none
C28_Witness ==
    /\ Built
    /\ TaskAuthors = {"alice", "bob"}
    /\ Cardinality(IdleTasksOf("alice")) = 1
    /\ IdleTasksOf("bob") = {}
    /\ tasks[Latest(RealTasksOf("bob"))].End >= gantt_in.we

\* ------------------------------------------------------------------------
\* Properties of the project state store
\* ------------------------------------------------------------------------

\* a record json can hold as it is: its dates are ISO strings
JsonNative(r) ==
    /\ r.project_start.py = "str"
    /\ r.project_end.py = "str"
    /\ \A i \in DOMAIN r.extensions : r.extensions[i].py = "str"

\* the last write was made by _save_pm / _del_pm, and _load_pm of the same
\* key has run since, with no write in between
LoadedAfter(op) == last_write.op = op /\ last_load.key = last_write.key

DeletedAbsentKey ==
    /\ last_write.op = "del"
    /\ last_write.alone
    /\ last_write.key \notin DOMAIN last_write.before

SavedAlone == last_write.op = "save" /\ last_write.alone

\* what _load_pm(k) returned before the last write, and returns after it
OtherKeysAsBefore ==
    \A k \in Keys \ {last_write.key} :
        LoadPm(file, k) = LoadPm(Json(last_write.before), k)

TwoSessionsSaved ==
    /\ last_write.op = "save"
    /\ last_write.outcome = "written"
    /\ last_write.prev # NoWrite
    /\ last_write.prev.op = "save"
    /\ last_write.prev.outcome = "written"
    /\ last_write.prev.by # last_write.by

\* the session that wrote last had read the file before the other one wrote
Interleaved == ~last_write.alone

\* the record the other session's write put under its key
OthersRecord == LoadPm(Json(last_write.before), last_write.prev.key)

\* C24: two sessions run _save_pm on the same key, their steps interleaved in
\* any order: the record stored under the key is exactly the record of the
\* session that wrote last, never a mix of the two.
C24_LastWriteWins ==
    (TwoSessionsSaved /\ last_write.prev.key = last_write.key
        /\ JsonNative(last_write.state)) =>
        LoadPm(file, last_write.key) = last_write.state

C24_Witness ==
    /\ TwoSessionsSaved
    /\ Interleaved
    /\ last_write.prev.key = last_write.key
    /\ OthersRecord = RecA
    /\ last_write.state = RecB
    /\ LoadPm(file, last_write.key) = RecB

\* C29 as stated: two sessions run _save_pm on two different keys, their
\* steps interleaved in any order: afterwards the document holds both
\* records.
C29_BothRecordsKept ==
    (TwoSessionsSaved /\ last_write.prev.key # last_write.key
        /\ JsonNative(last_write.state)) =>
        /\ LoadPm(file, last_write.key) = last_write.state
        /\ LoadPm(file, last_write.prev.key) = OthersRecord

\* C29 as amended: the same, provided the steps are not interleaved: the
\* session that writes last read the file after the other one had written.
C29_BothRecordsKeptInTurn ==
    (TwoSessionsSaved /\ ~Interleaved /\ last_write.prev.key # last_write.key
        /\ JsonNative(last_write.state)) =>
        /\ LoadPm(file, last_write.key) = last_write.state
        /\ LoadPm(file, last_write.prev.key) = OthersRecord

C29_Witness ==
    /\ TwoSessionsSaved
    /\ ~Interleaved
    /\ last_write.prev.key # last_write.key
    /\ sess[last_write.prev.by] = Idle
    /\ LoadPm(file, last_write.key) = RecB
    /\ LoadPm(file, last_write.prev.key) = RecA

\* _load_pm has run and an exception left it
LoadRaised == last_load # NoLoad /\ last_load.ret = Raised("AttributeError")

\* C11: _load_pm never raises; it returns the empty record when the key is
\* absent, when the state file is missing and when it is unreadable or
\* corrupt.
C11_LoadNeverRaises ==
    /\ ~LoadRaised
    /\ (last_load # NoLoad /\ last_load.key \notin DOMAIN RdState(file)) =>
           last_load.ret = EmptyDict

\* the part of C11 the code keeps: the empty record for an absent key, a
\* missing file and a file json.load rejects
LoadOfNothingStored ==
    (last_load # NoLoad /\ IsDict(RdState(file))
        /\ last_load.key \notin DOMAIN RdState(file)) =>
        last_load.ret = EmptyDict

\* ------------------------------------------------------------------------
\* page_project_timeline: activity table, overlay of the stored annotations,
\* "Save Changes"
\* ------------------------------------------------------------------------

MaxStored == 2   \* annotations the stored record holds
MaxShown == 2    \* commits in D["commits"]

Annotation(tag, desc) == [tag |-> tag, desc |-> desc]

\* annotations a record can hold: what an earlier "Save Changes" stored
StoredAnnotations == {Annotation("Feature", "login"), Annotation("", "fix")}

\* commit_inputs of the stored record, {} when nothing is stored
StoredInputs ==
    UNION {[S -> StoredAnnotations] : S \in {T \in SUBSET Shas : Cardinality(T) <= MaxStored}}

\* sha_full of the processed commits: c.get("sha", "") is "" without a hash
ShownLists == {t \in SeqsUpTo(Shas \cup {NoSha}, MaxShown) : Injective(t)}

\* what the user can put in the two editable cells of a row
CellEdits == {Annotation("Feature", "login"), Annotation(" ", " "), Annotation("Bug Fix", "")}

\* item = si.get(sha_full, {}); item.get("tag", ""), item.get("desc", "")
Overlay(si, sha) == IF sha \in DOMAIN si THEN si[sha] ELSE Annotation("", "")

\* rows of base_df, overlaid with the stored annotations when there are any
BaseRows(cs, si) ==
    [i \in DOMAIN cs |->
        [sha_full |-> cs[i],
         tag |-> Overlay(si, cs[i]).tag,
         desc |-> Overlay(si, cs[i]).desc]]

\* for _, r in edited.iterrows(): if sf: inp[sf] = {...}
RECURSIVE CommitInputs(_)
CommitInputs(rows) ==
    IF rows = <<>> THEN EmptyDict
    ELSE LET r == rows[Len(rows)]
             before == CommitInputs(SubSeq(rows, 1, Len(rows) - 1))
         IN IF r.sha_full = "" THEN before
            ELSE [k \in DOMAIN before \cup {r.sha_full} |->
                     IF k = r.sha_full THEN Annotation(Strip(r.tag), Strip(r.desc))
                     ELSE before[k]]

InitTimeline ==
    /\ tpc = "closed"
    /\ stored \in StoredInputs
    /\ Dcommits \in ShownLists
    /\ saved = EmptyDict
    /\ edited = <<>>
    /\ save_outcome = "none"

\* the page runs: saved = _load_pm(rk), the table is built and overlaid
OpenPage ==
    /\ tpc = "closed"
    /\ saved' = stored
    /\ edited' = BaseRows(Dcommits, stored)
    /\ tpc' = "open"
    /\ UNCHANGED <<stored, Dcommits, save_outcome>>
    /\ UNCHANGED xtvars

\* st.data_editor: the user edits Activity Tag and Description of a row
EditRow(i, cell) ==
    /\ tpc = "open"
    /\ i \in DOMAIN edited
    /\ edited' = [edited EXCEPT ![i].tag = cell.tag, ![i].desc = cell.desc]
    /\ UNCHANGED <<tpc, stored, Dcommits, saved, save_outcome>>
    /\ UNCHANGED xtvars

\* "Save Changes": pm["commit_inputs"] = inp; _save_pm(rk, pm)
SaveChanges ==
    /\ tpc = "open"
    /\ \E outcome \in WriteOutcomes :
         /\ save_outcome' = outcome
         /\ stored' = CASE outcome = "written" -> CommitInputs(edited)
                         [] outcome = "open_failed" -> stored
                         [] OTHER -> EmptyDict
    /\ tpc' = "saved"
    /\ UNCHANGED <<Dcommits, saved, edited>>
    /\ UNCHANGED xtvars

NextTimeline ==
    \/ OpenPage
    \/ \E i \in 1..MaxShown, cell \in CellEdits : EditRow(i, cell)
    \/ SaveChanges

\* ------------------------------------------------------------------------
\* Properties of page_project_timeline
\* ------------------------------------------------------------------------

\* the stored annotations of commits that are not among the fetched ones
Orphans == DOMAIN saved \ Range(Dcommits)

\* C13: an annotation stored for a commit that is no longer fetched is still
\* in the stored commit_inputs after the page loaded the record and the user
\* pressed Save Changes.
C13_OrphansRetained ==
    (tpc = "saved" /\ save_outcome = "written") =>
        \A sha \in Orphans : sha \in DOMAIN stored /\ stored[sha] = saved[sha]

\* ------------------------------------------------------------------------
\* page_author_intelligence: the enrichment pass of "Analyze Contributor"
\* ------------------------------------------------------------------------

\* det = _fetch_commit_detail(...): stats and files of each commit
DetailOf(sha) ==
    CASE sha = "A" -> [additions |-> 10, deletions |-> 2, files |-> 1]
      [] sha = "B" -> [additions |-> 5, deletions |-> 0, files |-> 2]
      [] sha = "C" -> [additions |-> 7, deletions |-> 3, files |-> 3]
      [] OTHER -> [additions |-> 1, deletions |-> 1, files |-> 1]

\* det.get("stats", {}).get(..., 0) and len(det.get("files", [])) of the {}
\* _fetch_commit_detail returns when _gh_get returns None (202, 204, 404)
EmptyDetail == [additions |-> 0, deletions |-> 0, files |-> 0]

\* how one _gh_get call can end: a body, None, or RuntimeError (status >= 400
\* other than 404, such as a rate-limit 403)
DetailOutcomes == {"ok", "none", "raises"}

\* sorted(..., key=lambda x: x["date"]): a stable sort on the date
RECURSIVE InsertByDate(_, _)
InsertByDate(c, sorted) ==
    IF sorted = <<>> THEN <<c>>
    ELSE IF c.date < Head(sorted).date THEN <<c>> \o sorted
         ELSE <<Head(sorted)>> \o InsertByDate(c, Tail(sorted))

RECURSIVE SortByDate(_)
SortByDate(cs) ==
    IF cs = <<>> THEN <<>>
    ELSE InsertByDate(cs[Len(cs)], SortByDate(SubSeq(cs, 1, Len(cs) - 1)))

\* ac = sorted([c for c in D["commits"]
\*              if c["author_id"] == selected and c["date"]], key=date)
AuthorCommits(cs, who) ==
    SortByDate(SelectSeqBy(cs,
        {c \in Range(cs) : c.author_id = who /\ c.date # NoDate}))

NoTotals == [ta |-> 0, td |-> 0, tf |-> 0]

\* collect_branch_data's result for a branch whose reconciled commits are raw
Dashboard(raw) == [commits |-> ProcessCommits(raw), author_stats |-> Rollup(raw)]

InitAuthor ==
    /\ apc = "select"
    /\ D \in {Dashboard(raw) : raw \in CommitLists}
    /\ selected = "None"
    /\ ac = <<>>
    /\ enriched = <<>>
    /\ totals = NoTotals
    /\ detail_calls = <<>>

\* "Analyze Contributor" is pressed for the selected contributor
Analyze(who) ==
    /\ apc = "select"
    /\ who \in DOMAIN D.author_stats
    /\ selected' = who
    /\ ac' = AuthorCommits(D.commits, who)
    /\ apc' = IF AuthorCommits(D.commits, who) = <<>> THEN "warned" ELSE "fetching"
    /\ UNCHANGED <<D, enriched, totals, detail_calls>>
    /\ UNCHANGED xavars

\* one turn of `for c in ac`: the detail fetch and the accumulation; an
\* exception of _gh_get is caught nowhere and ends the page run
FetchDetail(outcome) ==
    /\ apc = "fetching"
    /\ LET c == ac[Len(enriched) + 1]
           det == IF outcome = "ok" THEN DetailOf(c.sha_full) ELSE EmptyDetail
       IN /\ detail_calls' = Append(detail_calls, [sha |-> c.sha_full, outcome |-> outcome])
          /\ IF outcome = "raises"
             THEN /\ apc' = "aborted"
                  /\ UNCHANGED <<enriched, totals>>
             ELSE /\ totals' = [ta |-> totals.ta + det.additions,
                                td |-> totals.td + det.deletions,
                                tf |-> totals.tf + det.files]
                  /\ enriched' = Append(enriched,
                         [sha_full |-> c.sha_full, additions |-> det.additions,
                          deletions |-> det.deletions, files_changed |-> det.files])
                  /\ apc' = IF Len(enriched) + 1 = Len(ac) THEN "done" ELSE "fetching"
    /\ UNCHANGED <<D, selected, ac>>
    /\ UNCHANGED xavars

NextAuthor ==
    \/ \E who \in {"alice", "bob"} : Analyze(who)
    \/ \E outcome \in DetailOutcomes : FetchDetail(outcome)

\* ------------------------------------------------------------------------
\* Properties of the enrichment pass
\* ------------------------------------------------------------------------

\* the hashes of the selected author's reconciled commits
ShasOfSelected ==
    {D.commits[i].sha_full : i \in {j \in DOMAIN D.commits : D.commits[j].author_id = selected}}

FetchedShas == {detail_calls[i].sha : i \in DOMAIN detail_calls}

\* C15: the enrichment pass issues exactly one detail fetch for every
\* reconciled commit of the selected author, undated ones included, and the
\* reported total commit count (len(ac)) is the author's rollup count.
C15_OneFetchPerAuthorCommit ==
    apc \in {"done", "warned"} =>
        /\ FetchedShas = ShasOfSelected
        /\ Len(detail_calls) = Cardinality(ShasOfSelected)
        /\ Len(ac) = D.author_stats[selected].commits

\* the part of C15 the code keeps: one fetch for every dated commit of the
\* author, none twice, none for another author
OneFetchPerDatedCommit ==
    apc = "done" =>
        /\ FetchedShas =
              {D.commits[i].sha_full :
                  i \in {j \in DOMAIN D.commits :
                            D.commits[j].author_id = selected /\ D.commits[j].date # NoDate}}
        /\ Len(detail_calls) = Cardinality(FetchedShas)

\* C16: a detail fetch that fails, whatever the error, does not abort the
\* batch: the commit contributes zero and every remaining commit of the
\* author is still fetched.
C16_FailedFetchDoesNotAbort ==
    /\ apc # "aborted"
    /\ apc = "done" => Len(detail_calls) = Len(ac)

\* the part of C16 the code keeps: a fetch _gh_get answers with None (202,
\* 204, 404) counts as zero and the pass goes on
SoftFailureCountsZero ==
    apc = "done" =>
        /\ Len(enriched) = Len(ac)
        /\ \A i \in DOMAIN detail_calls :
              detail_calls[i].outcome = "none" =>
                  /\ enriched[i].additions = 0
                  /\ enriched[i].deletions = 0
                  /\ enriched[i].files_changed = 0

\* ------------------------------------------------------------------------
\* _health_score: dates are day numbers
\* ------------------------------------------------------------------------

MaxScored == 2     \* commits, issues and pull requests in the scored data
MaxAuthors == 3    \* entries of author_stats

Today == 100       \* dt.datetime.now(dt.UTC)
Baseline == 50
ScoreFloor == 0
ScoreCeiling == 100

\* the "date" of a commit: None, or a day 7, 8, 30, 31, 90 or 91 days back
CommitDates == {NoDate} \cup {Today - age : age \in {7, 8, 30, 31, 90, 91}}

HealthCommits == {[i \in DOMAIN t |-> [date |-> t[i]]] : t \in SeqsUpTo(CommitDates, MaxScored)}
HealthIssues ==
    {[i \in DOMAIN t |-> [state |-> t[i]]] : t \in SeqsUpTo({"open", "closed"}, MaxScored)}
HealthPulls ==
    {[i \in DOMAIN t |-> [state |-> t[i]]] :
        t \in SeqsUpTo({"open", "closed", "merged"}, MaxScored)}

HealthData ==
    [commits : HealthCommits, issues : HealthIssues, branch_pulls : HealthPulls,
     author_stats : 0..MaxAuthors]

\* dated = [c for c in commits if c["date"]], as the set of its dates
Dated(cs) == {cs[i].date : i \in DOMAIN cs} \ {NoDate}

\* days = (now - latest).days
DaysSince(latest) == Today - latest

NoRecency(cs) == 0

\* the adjustment the `if commits: ... else: score -= 15` block makes
Recency(cs) ==
    IF cs # <<>>
    THEN IF Dated(cs) # {}
         THEN LET days == DaysSince(Latest(Dated(cs)))
              IN IF days <= 7 THEN 20
                 ELSE IF days <= 30 THEN 12
                 ELSE IF days <= 90 THEN 5
                 ELSE -10
         ELSE 0
    ELSE -15

\* sum(1 for x in xs if x["state"] == state)
CountState(xs, state) == Cardinality({i \in DOMAIN xs : xs[i].state = state})

\* int(hits / len(xs) * 15) when xs is not empty
Share(xs, state) == IF xs # <<>> THEN (CountState(xs, state) * 15) \div Len(xs) ELSE 0

\* n = len(data["author_stats"]); +10 for n >= 3, +5 for n >= 2
AuthorBonus(n) == IF n >= 3 THEN 10 ELSE IF n >= 2 THEN 5 ELSE 0

Unclamped(x) == x

\* min(100, max(0, score))
Clamp(x) == Min2(ScoreCeiling, Max2(ScoreFloor, x))

RawScore(d) ==
    Baseline + Recency(d.commits) + Share(d.issues, "closed")
        + Share(d.branch_pulls, "merged") + AuthorBonus(d.author_stats)

HealthScore(d) == Clamp(RawScore(d))

NoData == [commits |-> <<>>, issues |-> <<>>, branch_pulls |-> <<>>, author_stats |-> 0]

InitHealth ==
    /\ hpc = "input"
    /\ data \in HealthData
    /\ score = Baseline

\* score = _health_score(data)
Score ==
    /\ hpc = "input"
    /\ score' = HealthScore(data)
    /\ hpc' = "scored"
    /\ UNCHANGED data
    /\ UNCHANGED xhvars

NextHealth == Score

\* ------------------------------------------------------------------------
\* Properties of _health_score
\* ------------------------------------------------------------------------

\* C17: _health_score returns an integer in [0,100] for every combination of
\* commits, issues, branch pull requests and author rollups.
C17_ScoreWithinRange ==
    hpc = "scored" => score \in ScoreFloor..ScoreCeiling

C17_Witness ==
    /\ hpc = "scored"
    /\ RawScore(data) > ScoreCeiling
    /\ score = ScoreCeiling

\* the recency adjustment C18 describes
ClaimedRecency(cs) ==
    IF Dated(cs) = {} THEN -15
    ELSE LET days == DaysSince(Latest(Dated(cs)))
         IN IF days <= 7 THEN 20
            ELSE IF days <= 30 THEN 12
            ELSE IF days <= 90 THEN 5
            ELSE -10

\* C18: the recency adjustment is -15 whenever no commit is dated, the commit
\* list being empty or not, and +20, +12, +5 or -10 for a latest dated commit
\* at most 7, at most 30, at most 90 or more than 90 days old.
C18_RecencyAdjustment ==
    hpc = "scored" =>
        score = Clamp(Baseline + ClaimedRecency(data.commits)
                      + Share(data.issues, "closed")
                      + Share(data.branch_pulls, "merged")
                      + AuthorBonus(data.author_stats))

\* the part of C18 the code keeps: the adjustment when some commit is dated
\* and when there is no commit
RecencyWhenDatedOrEmpty ==
    (hpc = "scored" /\ (data.commits = <<>> \/ Dated(data.commits) # {})) =>
        Recency(data.commits) = ClaimedRecency(data.commits)

\* C19: for zero commits, issues, branch pull requests and authors the score
\* is exactly 35.
C19_EmptyDataScores35 ==
    (hpc = "scored" /\ data = NoData) => score = 35

C19_Witness ==
    /\ hpc = "scored"
    /\ data = NoData
    /\ score = 35

\* ------------------------------------------------------------------------
\* _classify_file: a string is the sequence of its characters
\* ------------------------------------------------------------------------

MaxPieces == 3   \* pieces a path is put together from

\* FILE_NAME_PATTERNS, in the order it is declared; a string is the sequence
\* of its characters
FILE_NAME_PATTERNS ==
    <<[cls |-> "Testing",
       pats |-> {<<"t", "e", "s", "t", "_">>, <<"_", "t", "e", "s", "t", ".">>,
                 <<".", "t", "e", "s", "t", ".">>, <<"s", "p", "e", "c", ".">>,
                 <<".", "s", "p", "e", "c", ".">>,
                 <<"c", "o", "n", "f", "t", "e", "s", "t">>}],
      [cls |-> "Dependencies",
       pats |-> {<<"r", "e", "q", "u", "i", "r", "e", "m", "e", "n", "t", "s">>,
                 <<"p", "a", "c", "k", "a", "g", "e", ".", "j", "s", "o", "n">>,
                 <<"p", "i", "p", "f", "i", "l", "e">>,
                 <<"c", "a", "r", "g", "o", ".", "t", "o", "m", "l">>,
                 <<"g", "o", ".", "m", "o", "d">>,
                 <<"p", "o", "m", ".", "x", "m", "l">>,
                 <<"b", "u", "i", "l", "d", ".", "g", "r", "a", "d", "l", "e">>,
                 <<"g", "e", "m", "f", "i", "l", "e">>,
                 <<"p", "o", "e", "t", "r", "y", ".", "l", "o", "c", "k">>,
                 <<"y", "a", "r", "n", ".", "l", "o", "c", "k">>,
                 <<"p", "a", "c", "k", "a", "g", "e", "-", "l", "o", "c", "k">>}],
      [cls |-> "Build/CI",
       pats |-> {<<"d", "o", "c", "k", "e", "r", "f", "i", "l", "e">>,
                 <<"m", "a", "k", "e", "f", "i", "l", "e">>,
                 <<".", "g", "i", "t", "h", "u", "b">>,
                 <<"j", "e", "n", "k", "i", "n", "s", "f", "i", "l", "e">>,
                 <<".", "g", "i", "t", "l", "a", "b", "-", "c", "i">>,
                 <<".", "c", "i", "r", "c", "l", "e", "c", "i">>,
                 <<"t", "o", "x", ".", "i", "n", "i">>,
                 <<"s", "e", "t", "u", "p", ".", "p", "y">>,
                 <<"s", "e", "t", "u", "p", ".", "c", "f", "g">>,
                 <<"p", "y", "p", "r", "o", "j", "e", "c", "t", ".", "t", "o", "m", "l">>}]>>

\* FILE_CLASS_MAP, in the order it is declared
FILE_CLASS_MAP ==
    <<[cls |-> "Source Code",
       exts |-> {<<".", "c">>, <<".", "c", "p", "p">>, <<".", "c", "s">>,
                 <<".", "g", "o">>, <<".", "h">>, <<".", "j", "a", "v", "a">>,
                 <<".", "j", "s">>, <<".", "j", "s", "x">>, <<".", "k", "t">>,
                 <<".", "m">>, <<".", "p", "h", "p">>, <<".", "p", "y">>,
                 <<".", "r">>, <<".", "r", "b">>, <<".", "r", "s">>,
                 <<".", "s", "c", "a", "l", "a">>,
                 <<".", "s", "v", "e", "l", "t", "e">>,
                 <<".", "s", "w", "i", "f", "t">>, <<".", "t", "s">>,
                 <<".", "t", "s", "x">>, <<".", "v", "u", "e">>}],
      [cls |-> "Configuration",
       exts |-> {<<".", "c", "f", "g">>, <<".", "c", "o", "n", "f">>,
                 <<".", "e", "n", "v">>, <<".", "i", "n", "i">>,
                 <<".", "j", "s", "o", "n">>,
                 <<".", "p", "r", "o", "p", "e", "r", "t", "i", "e", "s">>,
                 <<".", "t", "o", "m", "l">>, <<".", "x", "m", "l">>,
                 <<".", "y", "a", "m", "l">>, <<".", "y", "m", "l">>}],
      [cls |-> "Documentation",
       exts |-> {<<".", "a", "d", "o", "c">>, <<".", "d", "o", "c">>,
                 <<".", "m", "d">>, <<".", "p", "d", "f">>,
                 <<".", "r", "s", "t">>, <<".", "t", "x", "t">>}],
      [cls |-> "Data",
       exts |-> {<<".", "c", "s", "v">>, <<".", "d", "b">>,
                 <<".", "j", "s", "o", "n", "l">>,
                 <<".", "p", "a", "r", "q", "u", "e", "t">>,
                 <<".", "s", "q", "l">>, <<".", "s", "q", "l", "i", "t", "e">>}],
      [cls |-> "Web Assets",
       exts |-> {<<".", "c", "s", "s">>, <<".", "g", "i", "f">>,
                 <<".", "h", "t", "m", "l">>, <<".", "i", "c", "o">>,
                 <<".", "j", "p", "e", "g">>, <<".", "j", "p", "g">>,
                 <<".", "l", "e", "s", "s">>, <<".", "p", "n", "g">>,
                 <<".", "s", "c", "s", "s">>, <<".", "s", "v", "g">>,
                 <<".", "t", "t", "f">>, <<".", "w", "o", "f", "f">>,
                 <<".", "w", "o", "f", "f", "2">>}],
      [cls |-> "Testing",
       exts |-> {}],
      [cls |-> "Dependencies",
       exts |-> {}],
      [cls |-> "Build/CI",
       exts |-> {}]>>

UpperLetters ==
    <<"A", "B", "C", "D", "E", "F", "G", "H", "I", "J", "K", "L", "M",
      "N", "O", "P", "Q", "R", "S", "T", "U", "V", "W", "X", "Y", "Z">>
LowerLetters ==
    <<"a", "b", "c", "d", "e", "f", "g", "h", "i", "j", "k", "l", "m",
      "n", "o", "p", "q", "r", "s", "t", "u", "v", "w", "x", "y", "z">>

\* str.lower(), one character at a time
LowerMap == [ch \in Range(UpperLetters) |-> LowerLetters[PosIn(UpperLetters, ch)]]
LowerChar(ch) == IF ch \in DOMAIN LowerMap THEN LowerMap[ch] ELSE ch
Lower(str) == [i \in DOMAIN str |-> LowerChar(str[i])]

\* the position of the last ch in str, 0 when there is none
LastIndexOf(str, ch) ==
    IF ch \in Range(str)
    THEN CHOOSE i \in DOMAIN str : str[i] = ch /\ \A j \in DOMAIN str : str[j] = ch => j <= i
    ELSE 0

\* str.split("/")[-1]
Basename(str) == SubSeq(str, LastIndexOf(str, "/") + 1, Len(str))

\* "." + name.rsplit(".", 1)[-1] if "." in name else ""
Extension(name) ==
    IF "." \in Range(name)
    THEN <<".">> \o SubSeq(name, LastIndexOf(name, ".") + 1, Len(name))
    ELSE <<>>

\* pat in name
Contains(name, pat) ==
    \E i \in 1..(Len(name) - Len(pat) + 1) : SubSeq(name, i, i + Len(pat) - 1) = pat

\* for cls, pats in FILE_NAME_PATTERNS.items(): ... return cls, from entry k on
RECURSIVE ByPattern(_, _)
ByPattern(name, k) ==
    IF k > Len(FILE_NAME_PATTERNS) THEN "None"
    ELSE IF \E pat \in FILE_NAME_PATTERNS[k].pats : Contains(name, pat)
         THEN FILE_NAME_PATTERNS[k].cls
         ELSE ByPattern(name, k + 1)

\* for cls, exts in FILE_CLASS_MAP.items(): ... return cls, from entry k on
RECURSIVE ByExtension(_, _)
ByExtension(ext, k) ==
    IF k > Len(FILE_CLASS_MAP) THEN "None"
    ELSE IF ext \in FILE_CLASS_MAP[k].exts THEN FILE_CLASS_MAP[k].cls
         ELSE ByExtension(ext, k + 1)

ClassifyExtensionFirst(p) ==
    LET name == Basename(Lower(p))
    IN IF ByExtension(Extension(name), 1) # "None" THEN ByExtension(Extension(name), 1)
       ELSE IF ByPattern(name, 1) # "None" THEN ByPattern(name, 1)
       ELSE "Other"

ClassifyFile(p) ==
    LET name == Basename(Lower(p))
    IN IF ByPattern(name, 1) # "None" THEN ByPattern(name, 1)
       ELSE IF ByExtension(Extension(name), 1) # "None"
            THEN ByExtension(Extension(name), 1)
       ELSE "Other"

\* the pieces paths are put together from
PathPieces ==
    {<<"s", "r", "c">>, <<"/">>, <<"t", "e", "s", "t", "_">>, <<"A">>,
     <<".", "p", "y">>, <<".", "P", "Y">>, <<".">>,
     <<"r", "e", "q", "u", "i", "r", "e", "m", "e", "n", "t", "s">>,
     <<".", "t", "x", "t">>,
     <<"D", "o", "c", "k", "e", "r", "f", "i", "l", "e">>,
     <<"s", "p", "e", "c", ".">>, <<".", "j", "s", "o", "n">>, <<"l">>,
     <<".", "g", "i", "t", "h", "u", "b">>, <<".", "c", "s", "s">>,
     <<"c", "o", "n", "f", "t", "e", "s", "t">>}

RECURSIVE Concat(_)
Concat(parts) == IF parts = <<>> THEN <<>> ELSE Head(parts) \o Concat(Tail(parts))

Paths == {Concat(parts) : parts \in SeqsUpTo(PathPieces, MaxPieces)}

InitClassify ==
    /\ fpc = "input"
    /\ path \in Paths
    /\ classification = "None"

\* classification = _classify_file(path)
Classify ==
    /\ fpc = "input"
    /\ classification' = ClassifyFile(path)
    /\ fpc' = "classified"
    /\ UNCHANGED path
    /\ UNCHANGED xfvars

NextClassify == Classify

\* ------------------------------------------------------------------------
\* Properties of _classify_file
\* ------------------------------------------------------------------------

Categories ==
    {"Source Code", "Configuration", "Documentation", "Data", "Web Assets",
     "Testing", "Dependencies", "Build/CI", "Other"}

\* the part of p after its last "/", lower-cased
LowerBasename(p) ==
    CHOOSE name \in {SubSeq(Lower(p), i, Len(p)) : i \in 1..(Len(p) + 1)} :
        /\ "/" \notin Range(name)
        /\ Len(name) < Len(p) => p[Len(p) - Len(name)] = "/"

\* the entries of FILE_NAME_PATTERNS with a pattern that occurs in name
PatternHits(name) ==
    {k \in DOMAIN FILE_NAME_PATTERNS :
        \E pat \in FILE_NAME_PATTERNS[k].pats : Contains(name, pat)}

\* the final dotted suffix of name: a "." and what follows the last "."
DottedSuffixes(name) ==
    {suffix \in {SubSeq(name, i, Len(name)) : i \in DOMAIN name} :
        suffix[1] = "." /\ "." \notin Range(Tail(suffix))}

\* the entries of FILE_CLASS_MAP whose extension set holds that suffix
ExtensionHits(name) ==
    {k \in DOMAIN FILE_CLASS_MAP : DottedSuffixes(name) \cap FILE_CLASS_MAP[k].exts # {}}

TestPrefix == <<"t", "e", "s", "t", "_">>

\* C20: the result is the first category of Testing, Dependencies, Build/CI
\* with a pattern that occurs in the lower-cased basename; otherwise the
\* category whose extension set holds the basename's final dotted suffix;
\* otherwise "Other". A basename containing "test_" is Testing whatever its
\* extension, and the result is always one of the nine categories.
C20_ClassifyFirstMatch ==
    fpc = "classified" =>
        LET name == LowerBasename(path)
            patterns == PatternHits(name)
            extensions == ExtensionHits(name)
        IN /\ classification \in Categories
           /\ patterns # {} =>
                 classification = FILE_NAME_PATTERNS[Earliest(patterns)].cls
           /\ (patterns = {} /\ extensions # {}) =>
                 /\ Cardinality(extensions) = 1
                 /\ \A k \in extensions : classification = FILE_CLASS_MAP[k].cls
           /\ (patterns = {} /\ extensions = {}) => classification = "Other"
           /\ Contains(name, TestPrefix) => classification = "Testing"

\* test_A.PY: a "test_" name with a Source Code extension, in upper case
C20_Witness ==
    /\ fpc = "classified"
    /\ Contains(LowerBasename(path), TestPrefix)
    /\ DottedSuffixes(LowerBasename(path)) = {<<".", "p", "y">>}
    /\ "A" \in Range(path)
    /\ "P" \in Range(path)
    /\ classification = "Testing"

\* ------------------------------------------------------------------------
\* _gh_get and _gh_paginated
\* ------------------------------------------------------------------------

PerPage == 2      \* params["per_page"], 100 in the program
MaxPageCap == 3   \* the largest max_pages a caller passes

\* response bodies: a JSON list of items, a JSON object with or without a
\* "message", or text that is not JSON
ListBody(items) == [json |-> "list", items |-> items, message |-> "None"]
DictBody(message) == [json |-> "dict", items |-> <<>>, message |-> message]
NotJson == [json |-> "invalid", items |-> <<>>, message |-> "None"]

\* the items of page number p when it holds n of them
PageItems(p, n) == [k \in 1..n |-> [page |-> p, idx |-> k]]

NoDataStatus == {202, 204, 404}
ErrorStatus == {400, 403, 500}
ErrorBodies ==
    {DictBody("API rate limit exceeded"), DictBody("None"), NotJson, ListBody(<<>>)}

\* what the provider can answer to the request for page p
Responses(p) ==
    {[status |-> 200, body |-> ListBody(PageItems(p, n))] : n \in 0..PerPage}
    \cup {[status |-> 200, body |-> DictBody("None")]}
    \cup {[status |-> st, body |-> b] : st \in NoDataStatus, b \in {NotJson, DictBody("Not Found")}}
    \cup {[status |-> st, body |-> b] : st \in ErrorStatus, b \in ErrorBodies}

\* resp.json().get("message", f"HTTP {code}"), or f"HTTP {code}" when json()
\* or .get raises
ErrorMessage(resp) ==
    IF resp.body.json = "dict" /\ resp.body.message # "None"
    THEN [provider |-> resp.body.message]
    ELSE [generic_http |-> resp.status]

ReturnsNoneOnly404(status) == status = 404

\* if resp.status_code in (202, 204, 404): return None
ReturnsNone(status) == status \in {202, 204, 404}

ReturnedNone == [kind |-> "none"]
ReturnedJson(body) == [kind |-> "json", body |-> body]
RaisedError(code, msg) == [kind |-> "raised", code |-> code, msg |-> msg]

\* _gh_get, given the response of its requests.get call
GhGet(resp) ==
    IF ReturnsNone(resp.status) THEN ReturnedNone
    ELSE IF resp.status >= 400 THEN RaisedError(resp.status, ErrorMessage(resp))
    ELSE ReturnedJson(resp.body)

\* not isinstance(data, list) or not data
NoItems(got) == got.kind # "json" \/ got.body.json # "list" \/ got.body.items = <<>>

NeverShort(items) == FALSE

\* len(data) < params["per_page"]
ShortPage(items) == Len(items) < PerPage

InitPaginated ==
    /\ max_pages \in 0..MaxPageCap
    /\ rpc = IF max_pages = 0 THEN "returned" ELSE "paging"
    /\ pg = 1
    /\ out = <<>>
    /\ received = <<>>
    /\ last_get = ReturnedNone
    /\ http_requests = 0

\* one turn of `for pg in range(1, max_pages + 1)`: data = _gh_get(path,
\* params), which makes one request, then the two tests and out.extend(data)
GetPage ==
    /\ rpc = "paging"
    /\ \E resp \in Responses(pg) :
         LET got == GhGet(resp)
         IN /\ received' = Append(received, resp)
            /\ http_requests' = http_requests + 1
            /\ last_get' = got
            /\ IF got.kind = "raised"
               THEN rpc' = "raised" /\ UNCHANGED <<out, pg>>
               ELSE IF NoItems(got)
               THEN rpc' = "returned" /\ UNCHANGED <<out, pg>>
               ELSE /\ out' = out \o got.body.items
                    /\ IF ShortPage(got.body.items) \/ pg = max_pages
                       THEN rpc' = "returned" /\ UNCHANGED pg
                       ELSE rpc' = "paging" /\ pg' = pg + 1
    /\ UNCHANGED max_pages
    /\ UNCHANGED xrvars

NextPaginated == GetPage

\* ------------------------------------------------------------------------
\* Properties of _gh_get and _gh_paginated
\* ------------------------------------------------------------------------

\* the response the last _gh_get call received
LastResponse == received[Len(received)]

\* C21: _gh_get returns null and does not raise for status 202, 204 and 404;
\* for any other status of 400 or above it raises an error with the
\* provider's message, or "HTTP {code}" when the body has no parsable
\* message; each call makes exactly one request.
C21_GetStatusHandling ==
    received # <<>> =>
        /\ LastResponse.status \in {202, 204, 404} => last_get = ReturnedNone
        /\ (LastResponse.status >= 400 /\ LastResponse.status \notin {202, 204, 404}) =>
              /\ last_get.kind = "raised"
              /\ last_get.code = LastResponse.status
              /\ IF LastResponse.body.json = "dict" /\ LastResponse.body.message # "None"
                 THEN last_get.msg = [provider |-> LastResponse.body.message]
                 ELSE last_get.msg = [generic_http |-> LastResponse.status]
        /\ http_requests = Len(received)

\* a 202 answered with null after full pages, and an error whose body is not
\* JSON raised with the generic text
C21_Witness ==
    /\ Len(received) = 2
    /\ received[1].status = 200
    /\ LastResponse.status = 500
    /\ LastResponse.body = NotJson
    /\ last_get = RaisedError(500, [generic_http |-> 500])
    /\ rpc = "raised"

\* a page that ends the loop: null, not a list, empty, or short
StopsPaging(resp) ==
    \/ resp.status # 200
    \/ resp.body.json # "list"
    \/ Len(resp.body.items) < PerPage

RECURSIVE ItemsOf(_)
ItemsOf(resps) ==
    IF resps = <<>> THEN <<>>
    ELSE (IF Head(resps).status = 200 THEN Head(resps).body.items ELSE <<>>)
         \o ItemsOf(Tail(resps))

\* C26: _gh_paginated requests pages 1, 2, 3, ... in turn; it stops right
\* after the first page that is empty, no list or short, and otherwise after
\* max_pages pages; it never makes more than max_pages requests; the result
\* is the concatenation, in order, of the pages received.
C26_PaginationStops ==
    /\ http_requests <= max_pages
    /\ Len(received) = http_requests
    /\ rpc = "paging" => pg = Len(received) + 1
    /\ \A i \in 1..(Len(received) - 1) : ~StopsPaging(received[i])
    /\ \A i \in DOMAIN received :
          received[i].status = 200 =>
              \A k \in DOMAIN received[i].body.items :
                  received[i].body.items[k].page = i
    /\ rpc = "paging" => \A i \in DOMAIN received : ~StopsPaging(received[i])
    /\ rpc = "returned" =>
          /\ out = ItemsOf(received)
          /\ Len(received) < max_pages => StopsPaging(LastResponse)

\* three full pages under a cap of three, all kept in order
C26_Witness ==
    /\ rpc = "returned"
    /\ max_pages = MaxPageCap
    /\ Len(received) = MaxPageCap
    /\ ~StopsPaging(LastResponse)
    /\ Len(out) = MaxPageCap * PerPage
    /\ out[1] = [page |-> 1, idx |-> 1]
    /\ out[Len(out)] = [page |-> MaxPageCap, idx |-> PerPage]

\* ------------------------------------------------------------------------
\* main: the Load and Refresh buttons
\* ------------------------------------------------------------------------

RepoBranches == {"main", "dev"}

\* the repository at the provider: absent, or present with a default branch
\* among its branches
RemoteGone == [exists |-> FALSE, default_branch |-> "None", branches |-> {}]
RemoteStates ==
    {RemoteGone} \cup
    {r \in [exists : {TRUE}, default_branch : RepoBranches,
             branches : SUBSET RepoBranches] : r.default_branch \in r.branches}

\* the text of the URL box: not a repository URL, a repository URL without
\* /tree/<branch>, or one that names a branch
InvalidUrl == [valid |-> FALSE, branch |-> "None"]
UrlInputs == {InvalidUrl} \cup {[valid |-> TRUE, branch |-> b] : b \in RepoBranches \cup {"None"}}

NoEntry == [cached |-> FALSE, value |-> "None"]
Entry(v) == [cached |-> TRUE, value |-> v]
\* st.cache_data.clear()
EmptyCache == [f \in {"repo", "branches"} |-> NoEntry]

\* _gh_get(f"/repos/{owner}/{repo}") or {}
RepoInfo(rem) == [full_name |-> rem.exists, default_branch |-> rem.default_branch]

\* a fetcher under @st.cache_data: the entry when there is one, else the
\* provider's answer, which is stored; a raised error stores nothing
CachedCall(cache, f, answer, up) ==
    IF cache[f].cached
    THEN [raised |-> FALSE, value |-> cache[f].value, cache |-> cache, hit |-> TRUE]
    ELSE IF ~up
    THEN [raised |-> TRUE, value |-> answer, cache |-> cache, hit |-> FALSE]
    ELSE [raised |-> FALSE, value |-> answer,
          cache |-> [cache EXCEPT ![f] = Entry(answer)], hit |-> FALSE]

CachedFetchRepo(cache, rem, up) == CachedCall(cache, "repo", RepoInfo(rem), up)
CachedFetchBranches(cache, rem, up) == CachedCall(cache, "branches", rem.branches, up)

NoBranchData == [branch |-> "None", default_branch |-> "None", branch_names |-> {}]
NoLastError == "None"

AttemptFailed(e, cache, used) == [failed |-> TRUE, data |-> NoBranchData, error |-> e, cache |-> cache, used |-> used]

\* collect_branch_data(owner, repo, branch), with the fetchers it reads the
\* repository and its branches through; `used` names the entries read that
\* were in the cache when the button was pressed
CollectRun(cache, rem, up, br, used, old) ==
    LET r == CachedFetchRepo(cache, rem, up)
        u1 == used \cup (IF r.hit /\ old["repo"].cached THEN {"repo"} ELSE {})
    IN IF r.raised THEN AttemptFailed("GitHub API error", r.cache, u1)
       ELSE IF ~r.value.full_name THEN AttemptFailed("Repository not found", r.cache, u1)
       ELSE LET bq == CachedFetchBranches(r.cache, rem, up)
                u2 == u1 \cup (IF bq.hit /\ old["branches"].cached THEN {"branches"} ELSE {})
            IN IF bq.raised THEN AttemptFailed("GitHub API error", bq.cache, u2)
               ELSE IF bq.value # {} /\ br \notin bq.value
               THEN AttemptFailed("Branch not found", bq.cache, u2)
               ELSE [failed |-> FALSE,
                     data |-> [branch |-> br,
                               default_branch |-> r.value.default_branch,
                               branch_names |-> bq.value],
                     error |-> NoLastError, cache |-> bq.cache, used |-> u2]

\* the body of `try:` in main
TryLoad(btn, url, cache, rem, up) ==
    IF ~url.valid THEN AttemptFailed("Not a GitHub URL", cache, {})
    ELSE IF url.branch # "None"
    THEN CollectRun(IF btn = "Refresh" THEN EmptyCache ELSE cache,
                    rem, up, url.branch, {}, cache)
    ELSE LET info == CachedFetchRepo(cache, rem, up)
             used == IF info.hit THEN {"repo"} ELSE {}
         IN IF info.raised THEN AttemptFailed("GitHub API error", info.cache, used)
            ELSE IF ~info.value.full_name
            THEN AttemptFailed("Repository not found", info.cache, used)
            ELSE CollectRun(IF btn = "Refresh" THEN EmptyCache ELSE info.cache,
                            rem, up, info.value.default_branch, used,
                            IF btn = "Refresh" THEN EmptyCache ELSE cache)

KeepsLastGood(before, run) == [branch_data |-> before, last_error |-> run.error]

\* the two assignments of the try body's end, or those of `except Exception`
SessionAfter(before, run) ==
    IF run.failed
    THEN [branch_data |-> NoBranchData, last_error |-> run.error]
    ELSE [branch_data |-> run.data, last_error |-> NoLastError]

\* the rest of main: st.error when last_error is set, the welcome screen
\* and return when there is no data, else the page handler
Rendered(btn, url, failed, used, before, shown, err) ==
    [button |-> btn, no_branch |-> url.valid /\ url.branch = "None",
     failed |-> failed, used |-> used, before |-> before,
     error_shown |-> err # NoLastError, handler_called |-> shown # NoBranchData]

InitMain ==
    /\ remote \in RemoteStates
    /\ fetch_cache = EmptyCache
    /\ branch_data = NoBranchData
    /\ last_error = NoLastError
    /\ last_run = Rendered("None", InvalidUrl, FALSE, {}, NoBranchData, NoBranchData, NoLastError)

Press(btn) ==
    \E url \in UrlInputs, up \in BOOLEAN :
        LET run == TryLoad(btn, url, fetch_cache, remote, up)
            after == SessionAfter(branch_data, run)
        IN /\ fetch_cache' = run.cache
           /\ branch_data' = after.branch_data
           /\ last_error' = after.last_error
           /\ last_run' = Rendered(btn, url, run.failed, run.used, branch_data,
                                   after.branch_data, after.last_error)
           /\ UNCHANGED remote
           /\ UNCHANGED xmvars

PressLoad == Press("Load")

PressRefresh == Press("Refresh")

\* a run of main with neither button pressed (another widget changed)
Rerun ==
    /\ last_run' = Rendered("None", InvalidUrl, FALSE, {}, branch_data,
                            branch_data, last_error)
    /\ UNCHANGED <<remote, fetch_cache, branch_data, last_error>>
    /\ UNCHANGED xmvars

\* an entry older than its ttl is dropped
CacheExpires ==
    /\ \E f \in DOMAIN fetch_cache :
         /\ fetch_cache[f].cached
         /\ fetch_cache' = [fetch_cache EXCEPT ![f] = NoEntry]
    /\ UNCHANGED <<remote, branch_data, last_error, last_run>>
    /\ UNCHANGED xmvars

\* the repository changes at the provider between two runs
RemoteChanges ==
    /\ remote' \in RemoteStates \ {remote}
    /\ UNCHANGED <<fetch_cache, branch_data, last_error, last_run>>
    /\ UNCHANGED xmvars

NextMain == PressLoad \/ PressRefresh \/ Rerun \/ CacheExpires \/ RemoteChanges

\* ------------------------------------------------------------------------
\* Properties of main
\* ------------------------------------------------------------------------

\* C22: a Refresh invalidates the fetch cache before anything is fetched for
\* it: no entry cached before the press, the repository metadata that
\* resolves the default branch included, is used for the refreshed data.
C22_RefreshUsesNoEarlierEntry ==
    (last_run.button = "Refresh" /\ ~last_run.failed) => last_run.used = {}

\* what does hold: a Refresh whose URL names the branch reads no earlier entry
RefreshWithBranchUsesNoEarlierEntry ==
    (last_run.button = "Refresh" /\ ~last_run.no_branch) => last_run.used = {}

\* a Refresh built its data on a default branch that is no longer the
\* repository's default
RefreshOnStaleDefault ==
    /\ last_run.button = "Refresh"
    /\ last_run.no_branch
    /\ ~last_run.failed
    /\ branch_data.branch # remote.default_branch
    /\ branch_data.default_branch = remote.default_branch

\* C23: when a Load or Refresh fails after an earlier one succeeded, the
\* error is shown and branch_data is what it was before the failed attempt.
C23_FailedLoadKeepsLastGood ==
    (last_run.button # "None" /\ last_run.failed /\ last_run.before # NoBranchData) =>
        /\ last_run.error_shown
        /\ branch_data = last_run.before

\* what does hold: the failed attempt shows its error
FailedLoadShowsError ==
    (last_run.button # "None" /\ last_run.failed) =>
        last_run.error_shown /\ last_error # NoLastError

\* C30: the session never holds data and an error together: a successful
\* attempt sets branch_data and clears last_error, a failed one sets
\* last_error and leaves branch_data empty, and a page handler runs only
\* when branch_data is set.
C30_DataXorError ==
    /\ ~(branch_data # NoBranchData /\ last_error # NoLastError)
    /\ last_run.button # "None" =>
          IF last_run.failed
          THEN last_error # NoLastError /\ branch_data = NoBranchData
          ELSE branch_data # NoBranchData /\ last_error = NoLastError
    /\ last_run.handler_called => branch_data # NoBranchData

\* a failed Refresh after a successful Load: the data is gone, the error set
C30_Witness ==
    /\ last_run.button = "Refresh"
    /\ last_run.failed
    /\ last_run.before # NoBranchData
    /\ branch_data = NoBranchData
    /\ last_error = "Branch not found"
    /\ ~last_run.handler_called

\* ------------------------------------------------------------------------
\* Initial values of the parts a specification does not exercise
\* ------------------------------------------------------------------------

IdleCollect ==
    /\ pc = "idle"
    /\ branch = "main"
    /\ default_branch = "None"
    /\ branch_names = <<>>
    /\ all_commits = <<>>
    /\ compare = NotFetched
    /\ default_shas = {}
    /\ raw_commits = <<>>
    /\ commits = <<>>
    /\ author_stats = <<>>
    /\ calls = <<>>
    /\ error = NoError

IdleGantt ==
    /\ gpc = "idle"
    /\ df = <<>>
    /\ gantt_in = <<>>
    /\ tasks = <<>>

IdleStore ==
    /\ file = "missing"
    /\ sess = <<>>
    /\ last_write = <<>>
    /\ last_load = <<>>
    /\ store_ops = 0

IdleTimeline ==
    /\ tpc = "idle"
    /\ stored = <<>>
    /\ Dcommits = <<>>
    /\ saved = <<>>
    /\ edited = <<>>
    /\ save_outcome = "none"

IdleAuthor ==
    /\ apc = "idle"
    /\ D = <<>>
    /\ selected = "None"
    /\ ac = <<>>
    /\ enriched = <<>>
    /\ totals = <<>>
    /\ detail_calls = <<>>

IdleHealth ==
    /\ hpc = "idle"
    /\ data = <<>>
    /\ score = 0

IdleClassify ==
    /\ fpc = "idle"
    /\ path = <<>>
    /\ classification = "None"

IdlePaginated ==
    /\ rpc = "idle"
    /\ max_pages = 0
    /\ pg = 0
    /\ out = <<>>
    /\ received = <<>>
    /\ last_get = <<>>
    /\ http_requests = 0

IdleMain ==
    /\ remote = RemoteGone
    /\ fetch_cache = EmptyCache
    /\ branch_data = NoBranchData
    /\ last_error = NoLastError
    /\ last_run = Rendered("None", InvalidUrl, FALSE, {}, NoBranchData, NoBranchData, NoLastError)

IdleOthers == IdleAuthor /\ IdleHealth /\ IdleClassify /\ IdlePaginated /\ IdleMain

CollectInit == InitCollect /\ IdleGantt /\ IdleStore /\ IdleTimeline /\ IdleOthers

GanttInit == IdleCollect /\ InitGantt /\ IdleStore /\ IdleTimeline /\ IdleOthers

SpecGantt == GanttInit /\ [][NextGantt]_vars

StoreInit == IdleCollect /\ IdleGantt /\ InitStore /\ IdleTimeline /\ IdleOthers

SpecStore == StoreInit /\ [][NextStore]_vars

SpecCollect == CollectInit /\ [][NextCollect]_vars

TimelineInit == IdleCollect /\ IdleGantt /\ IdleStore /\ InitTimeline /\ IdleOthers

AuthorInit ==
    /\ IdleCollect /\ IdleGantt /\ IdleStore /\ IdleTimeline
    /\ InitAuthor /\ IdleHealth /\ IdleClassify /\ IdlePaginated /\ IdleMain

HealthInit ==
    /\ IdleCollect /\ IdleGantt /\ IdleStore /\ IdleTimeline
    /\ IdleAuthor /\ InitHealth /\ IdleClassify /\ IdlePaginated /\ IdleMain

ClassifyInit ==
    /\ IdleCollect /\ IdleGantt /\ IdleStore /\ IdleTimeline
    /\ IdleAuthor /\ IdleHealth /\ InitClassify /\ IdlePaginated /\ IdleMain

SpecClassify == ClassifyInit /\ [][NextClassify]_vars

PaginatedInit ==
    /\ IdleCollect /\ IdleGantt /\ IdleStore /\ IdleTimeline
    /\ IdleAuthor /\ IdleHealth /\ IdleClassify /\ InitPaginated /\ IdleMain

SpecPaginated == PaginatedInit /\ [][NextPaginated]_vars

MainInit ==
    /\ IdleCollect /\ IdleGantt /\ IdleStore /\ IdleTimeline
    /\ IdleAuthor /\ IdleHealth /\ IdleClassify /\ IdlePaginated /\ InitMain

SpecMain == MainInit /\ [][NextMain]_vars

SpecHealth == HealthInit /\ [][NextHealth]_vars

SpecAuthor == AuthorInit /\ [][NextAuthor]_vars

SpecTimeline == TimelineInit /\ [][NextTimeline]_vars

====
